---- MODULE Spec2Model ----
(***************************************************************************)
(* Model of the RandomNameSelector component (src/app/page.tsx): the name  *)
(* ingestor parseCSV and the pairing state held in the component's         *)
(* useState cells, driven by the upload, draw, undo and reset handlers.    *)
(*                                                                         *)
(* A text is a sequence of one-character strings; a name is the sequence   *)
(* of characters of a token.  Arrays are sequences.                        *)
(***************************************************************************)
EXTENDS Integers, Sequences, FiniteSets, TLC

\* ------------------------------------------------------------------ bounds
\* Largest number of names in a generated attendee file.
MaxNames == 5

\* Longest text handed to parseCSV when every text is tried.
MaxLen == 5

\* ------------------------------------------------------- text primitives
\* Characters String.prototype.trim removes that can occur inside a line.
Whitespace == {" ", "\t", "\r"}

\* The delimiters of the regular expression /[,;]/.
Delimiters == {",", ";"}

RECURSIVE split(_, _)
\* String.prototype.split on any one character of seps: the pieces between
\* separators, empty pieces included (always at least one piece).
split(s, seps) ==
    IF \A i \in 1..Len(s) : s[i] \notin seps
    THEN <<s>>
    ELSE LET k == CHOOSE i \in 1..Len(s) :
                      s[i] \in seps /\ \A j \in 1..(i - 1) : s[j] \notin seps
         IN  <<SubSeq(s, 1, k - 1)>> \o split(SubSeq(s, k + 1, Len(s)), seps)

\* String.prototype.trim: drop leading and trailing whitespace.
trim(s) ==
    LET keep == {i \in 1..Len(s) : s[i] \notin Whitespace \union {"\n"}}
    IN  IF keep = {} THEN <<>>
        ELSE LET lo == CHOOSE i \in keep : \A j \in keep : i <= j
                 hi == CHOOSE i \in keep : \A j \in keep : j <= i
             IN  SubSeq(s, lo, hi)

\* val.replace(/"/g, ""): delete every double quote.
stripQuotes(s) == SelectSeq(s, LAMBDA c : c # "\"")

RECURSIVE flatten(_)
\* Concatenation of a sequence of sequences (the pushes of the two forEach).
flatten(ss) == IF ss = <<>> THEN <<>> ELSE Head(ss) \o flatten(Tail(ss))

RECURSIVE dedupe(_)
\* Variant of dedupe that keeps each value at its last occurrence.
dedupe_keepsLast(s) ==
    SelectSeq([i \in 1..Len(s) |-> IF \E j \in (i + 1)..Len(s) : s[j] = s[i]
                                    THEN <<>> ELSE s[i]],
              LAMBDA v : v # <<>>)

\* [...new Set(names)]: each value once, at the position of its first
\* occurrence.
dedupe(s) ==
    IF s = <<>> THEN <<>>
    ELSE LET init == dedupe(SubSeq(s, 1, Len(s) - 1))
             last == s[Len(s)]
         IN  IF \E i \in 1..Len(init) : init[i] = last
             THEN init ELSE Append(init, last)

\* The values one line contributes: split on , or ; then trim, strip the
\* quotes, and keep the non-empty results.
lineValues(line) ==
    LET raw  == split(line, Delimiters)
        vals == [i \in 1..Len(raw) |-> stripQuotes(trim(raw[i]))]
    IN  SelectSeq(vals, LAMBDA v : v # <<>>)

parseCSV(text) ==
    LET all   == split(text, {"\n"})
        lines == SelectSeq(all, LAMBDA l : trim(l) # <<>>)
        names == flatten([i \in 1..Len(lines) |-> lineValues(lines[i])])
    IN  dedupe(names)

\* ------------------------------------------------------------ input files
\* Letters the generated files draw their names from.
Letters == <<"a", "b", "c", "d", "e", "f", "g", "h">>

\* Separators used in turn between the names of a generated file.
Separators == <<",", "\n", ";">>

RECURSIVE listing(_)
\* A file naming the first n letters, with mixed delimiter styles.
listing(n) ==
    IF n = 0 THEN <<>>
    ELSE IF n = 1 THEN <<Letters[1]>>
    ELSE listing(n - 1) \o <<Separators[((n - 2) % 3) + 1], Letters[n]>>

\* A file with a quoted name, a blank line, padding and repeated names:
\* a, "b" / (blank) / b;a;;c
Quirky ==
    <<"a", ",", " ", "\"", "b", "\"", "\n", " ", "\n", "b", ";", "a", ";", ";", "c">>

\* The files a user may pick.
Files == {listing(n) : n \in 0..MaxNames} \union {Quirky}

\* ------------------------------------------------------------------ state
VARIABLES
    allNames,        \* useState<string[]>          NameSet
    remainingNames,  \* useState<string[]>          RemainingPool
    selectedPairs,   \* useState<SelectedPair[]>    History
    currentPair,     \* useState<SelectedPair|null> CurrentPair
    isUploading,     \* useState(false)
    pendingFile,     \* the text of the file whose read is outstanding
    toast,           \* the notification last passed to toast()
    lastOp,          \* the handler outcome that produced this state
    issued,          \* largest round handed out since the last Load
    fresh,           \* no pair was removed since the last Load
    staleCalled,     \* a stale pair was passed to removePairFromHistory
    held             \* the pair object last passed to removePairFromHistory

vars == <<allNames, remainingNames, selectedPairs, currentPair, isUploading,
          pendingFile, toast, lastOp, issued, fresh, staleCalled,
          held>>

\* The four entities of the pairing state machine.
entities == <<allNames, remainingNames, selectedPairs, currentPair>>

\* currentPair = null
NoPair == [name1 |-> <<>>, name2 |-> <<>>, round |-> 0]

\* No read outstanding.
NoFile == <<"<none>">>

NoToast == [title |-> "", variant |-> "", args |-> <<>>]

Init ==
    /\ allNames = <<>>
    /\ remainingNames = <<>>
    /\ selectedPairs = <<>>
    /\ currentPair = NoPair
    /\ isUploading = FALSE
    /\ pendingFile = NoFile
    /\ toast = NoToast
    /\ lastOp = "init"
    /\ issued = 0
    /\ fresh = TRUE
    /\ staleCalled = FALSE
    /\ held = NoPair

\* ------------------------------------------------------------ small helpers
Elems(s) == {s[i] : i \in 1..Len(s)}

includes(s, x) == \E i \in 1..Len(s) : s[i] = x

\* Names held by the pairs of a history.
PairNames(h) == UNION {{h[i].name1, h[i].name2} : i \in 1..Len(h)}

\* --------------------------------------------------------- rendering gates
\* {allNames.length === 0 && (<Card> upload ...)}
UploadCardShown == Len(allNames) = 0

\* {allNames.length > 0 && (<Card> selection ...)}
SelectionCardShown == Len(allNames) > 0

\* <Button onClick={selectRandomPair} disabled={remainingNames.length < 2}>
SelectButtonEnabled == SelectionCardShown /\ ~(Len(remainingNames) < 2)

\* Variant of FileInputEnabled without disabled={isUploading}.
FileInputEnabled_always == UploadCardShown

\* <Input type="file" onChange={handleFileUpload} disabled={isUploading}>
FileInputEnabled == UploadCardShown /\ ~isUploading

\* ------------------------------------------------------- handleFileUpload
\* const file = event.target.files?.[0]; if (!file) return
uploadNoFile ==
    /\ lastOp' = "noFile"
    /\ UNCHANGED <<allNames, remainingNames, selectedPairs, currentPair,
                   isUploading, pendingFile, toast, issued, fresh, staleCalled, held>>

\* setIsUploading(true), then the handler suspends at await file.text().
uploadStart(text) ==
    /\ isUploading' = TRUE
    /\ pendingFile' = text
    /\ lastOp' = "reading"
    /\ UNCHANGED <<allNames, remainingNames, selectedPairs, currentPair,
                   toast, issued, fresh, staleCalled, held>>

\* Variant of uploadTooFew without the early return: the setters run on the
\* short list too.
uploadTooFew_loadsAnyway ==
    /\ pendingFile # NoFile
    /\ Len(parseCSV(pendingFile)) < 2
    /\ toast' = [title |-> "Error", variant |-> "destructive",
                 args |-> <<"Please upload a file with at least 2 names.">>]
    /\ allNames' = parseCSV(pendingFile)
    /\ remainingNames' = parseCSV(pendingFile)
    /\ isUploading' = FALSE
    /\ pendingFile' = NoFile
    /\ lastOp' = "tooFew"
    /\ UNCHANGED <<selectedPairs, currentPair, issued, fresh, staleCalled, held>>

\* The read resolved and parseCSV found fewer than two names: error toast,
\* return through finally.
uploadTooFew ==
    /\ pendingFile # NoFile
    /\ Len(parseCSV(pendingFile)) < 2
    /\ toast' = [title |-> "Error", variant |-> "destructive",
                 args |-> <<"Please upload a file with at least 2 names.">>]
    /\ isUploading' = FALSE
    /\ pendingFile' = NoFile
    /\ lastOp' = "tooFew"
    /\ UNCHANGED <<allNames, remainingNames, selectedPairs, currentPair,
                   issued, fresh, staleCalled, held>>

\* Variant of uploadLoaded without setRemainingNames([...names]).
uploadLoaded_keepsPool ==
    /\ pendingFile # NoFile
    /\ LET names == parseCSV(pendingFile)
       IN  /\ ~(Len(names) < 2)
           /\ allNames' = names
           /\ toast' = [title |-> "Success", variant |-> "default",
                        args |-> <<Len(names)>>]
    /\ selectedPairs' = <<>>
    /\ currentPair' = NoPair
    /\ isUploading' = FALSE
    /\ pendingFile' = NoFile
    /\ lastOp' = "loaded"
    /\ issued' = 0
    /\ fresh' = TRUE
    /\ held' = NoPair
    /\ staleCalled' = FALSE
    /\ UNCHANGED remainingNames

\* The read resolved with at least two names: the four setters, the success
\* toast, then finally.
uploadLoaded ==
    /\ pendingFile # NoFile
    /\ LET names == parseCSV(pendingFile)
       IN  /\ ~(Len(names) < 2)
           /\ allNames' = names
           /\ remainingNames' = names
           /\ toast' = [title |-> "Success", variant |-> "default",
                        args |-> <<Len(names)>>]
    /\ selectedPairs' = <<>>
    /\ currentPair' = NoPair
    /\ isUploading' = FALSE
    /\ pendingFile' = NoFile
    /\ lastOp' = "loaded"
    /\ issued' = 0
    /\ fresh' = TRUE
    /\ held' = NoPair
    /\ staleCalled' = FALSE

\* Variant of uploadReadFailed without the finally block.
uploadReadFailed_keepsFlag ==
    /\ pendingFile # NoFile
    /\ toast' = [title |-> "Error", variant |-> "destructive",
                 args |-> <<"Failed to parse the file. Please check the format.">>]
    /\ pendingFile' = NoFile
    /\ lastOp' = "readFailed"
    /\ UNCHANGED <<allNames, remainingNames, selectedPairs, currentPair,
                   isUploading, issued, fresh, staleCalled, held>>

\* file.text() rejected: the catch block's toast, then finally.
uploadReadFailed ==
    /\ pendingFile # NoFile
    /\ toast' = [title |-> "Error", variant |-> "destructive",
                 args |-> <<"Failed to parse the file. Please check the format.">>]
    /\ isUploading' = FALSE
    /\ pendingFile' = NoFile
    /\ lastOp' = "readFailed"
    /\ UNCHANGED <<allNames, remainingNames, selectedPairs, currentPair,
                   issued, fresh, staleCalled, held>>

\* ------------------------------------------------------- selectRandomPair
\* [...remainingNames].sort(() => Math.random() - 0.5) read at [0] and [1]:
\* the comparator answers at random, so the sort may leave any permutation,
\* and the two names are those of any two different positions.
shuffled_withRepeat(names) ==
    {<<names[i], names[j]>> : i, j \in 1..Len(names)}

shuffled(names) ==
    {<<names[i], names[j]>> : i, j \in 1..Len(names)} \
        {<<names[i], names[i]>> : i \in 1..Len(names)}

\* Variant of nextRound numbering from zero.
nextRound_zeroBased(pairs) == Len(pairs)

\* round: selectedPairs.length + 1
nextRound(pairs) == Len(pairs) + 1

\* Variant of withoutNames that filters out name1 only.
withoutNames_keepsSecond(names, name1, name2) ==
    SelectSeq(names, LAMBDA name : name # name1)

\* remainingNames.filter((name) => name !== name1 && name !== name2)
withoutNames(names, name1, name2) ==
    SelectSeq(names, LAMBDA name : name # name1 /\ name # name2)

\* Variant of selectTooFew that also clears the displayed pair.
selectTooFew_clearsCurrent ==
    /\ Len(remainingNames) < 2
    /\ toast' = [title |-> "No more pairs", variant |-> "destructive",
                 args |-> <<"All names have been selected!">>]
    /\ currentPair' = NoPair
    /\ lastOp' = "drawFailed"
    /\ UNCHANGED <<allNames, remainingNames, selectedPairs,
                   isUploading, pendingFile, issued, fresh, staleCalled, held>>

\* if (remainingNames.length < 2) { toast(...); return }
selectTooFew ==
    /\ Len(remainingNames) < 2
    /\ toast' = [title |-> "No more pairs", variant |-> "destructive",
                 args |-> <<"All names have been selected!">>]
    /\ lastOp' = "drawFailed"
    /\ UNCHANGED <<allNames, remainingNames, selectedPairs, currentPair,
                   isUploading, pendingFile, issued, fresh, staleCalled, held>>

\* Variant of selectDraws that puts the new pair in front of the history.
selectDraws_prepends ==
    /\ ~(Len(remainingNames) < 2)
    /\ \E pick \in shuffled(remainingNames) :
         LET newPair == [name1 |-> pick[1], name2 |-> pick[2],
                         round |-> nextRound(selectedPairs)]
         IN  /\ currentPair' = newPair
             /\ selectedPairs' = <<newPair>> \o selectedPairs
             /\ remainingNames' = withoutNames(remainingNames, pick[1], pick[2])
             /\ issued' = IF newPair.round > issued THEN newPair.round ELSE issued
    /\ lastOp' = "drawn"
    /\ UNCHANGED <<allNames, isUploading, pendingFile, toast, fresh, staleCalled, held>>

selectDraws ==
    /\ ~(Len(remainingNames) < 2)
    /\ \E pick \in shuffled(remainingNames) :
         LET newPair == [name1 |-> pick[1], name2 |-> pick[2],
                         round |-> nextRound(selectedPairs)]
         IN  /\ currentPair' = newPair
             /\ selectedPairs' = Append(selectedPairs, newPair)
             /\ remainingNames' = withoutNames(remainingNames, pick[1], pick[2])
             /\ issued' = IF newPair.round > issued THEN newPair.round ELSE issued
    /\ lastOp' = "drawn"
    /\ UNCHANGED <<allNames, isUploading, pendingFile, toast, fresh, staleCalled, held>>

selectRandomPair == selectTooFew \/ selectDraws

\* -------------------------------------------------- removePairFromHistory
\* selectedPairs.filter((pair) => pair.round !== pairToRemove.round)
withoutRound(pairs, round) == SelectSeq(pairs, LAMBDA pair : pair.round # round)

\* Variant of pushIfAbsent with the test inverted.
pushIfAbsent_inverted(names, name) ==
    IF includes(names, name) THEN Append(names, name) ELSE names

\* push(name) unless includes(name)
pushIfAbsent(names, name) ==
    IF ~includes(names, name) THEN Append(names, name) ELSE names

\* Variant of removePairFromHistory without the "clear the current pair"
\* step.
removePairFromHistory_keepsCurrent(pairToRemove) ==
    /\ selectedPairs' = withoutRound(selectedPairs, pairToRemove.round)
    /\ remainingNames' =
           pushIfAbsent(pushIfAbsent(remainingNames, pairToRemove.name1),
                        pairToRemove.name2)
    /\ toast' = [title |-> "Pair removed", variant |-> "default",
                 args |-> <<pairToRemove.name1, pairToRemove.name2>>]
    /\ lastOp' = "removed"
    /\ fresh' = FALSE
    /\ staleCalled' = (staleCalled \/ ~includes(selectedPairs, pairToRemove))
    /\ held' = pairToRemove
    /\ UNCHANGED <<allNames, currentPair, isUploading, pendingFile, issued>>

\* Variant of removePairFromHistory that gives back name1 only.
removePairFromHistory_returnsFirst(pairToRemove) ==
    /\ selectedPairs' = withoutRound(selectedPairs, pairToRemove.round)
    /\ remainingNames' = pushIfAbsent(remainingNames, pairToRemove.name1)
    /\ currentPair' =
           IF currentPair # NoPair /\ currentPair.round = pairToRemove.round
           THEN NoPair ELSE currentPair
    /\ toast' = [title |-> "Pair removed", variant |-> "default",
                 args |-> <<pairToRemove.name1, pairToRemove.name2>>]
    /\ lastOp' = "removed"
    /\ fresh' = FALSE
    /\ staleCalled' = (staleCalled \/ ~includes(selectedPairs, pairToRemove))
    /\ held' = pairToRemove
    /\ UNCHANGED <<allNames, isUploading, pendingFile, issued>>

removePairFromHistory(pairToRemove) ==
    /\ selectedPairs' = withoutRound(selectedPairs, pairToRemove.round)
    /\ remainingNames' =
           pushIfAbsent(pushIfAbsent(remainingNames, pairToRemove.name1),
                        pairToRemove.name2)
    /\ currentPair' =
           IF currentPair # NoPair /\ currentPair.round = pairToRemove.round
           THEN NoPair ELSE currentPair
    /\ toast' = [title |-> "Pair removed", variant |-> "default",
                 args |-> <<pairToRemove.name1, pairToRemove.name2>>]
    /\ lastOp' = "removed"
    /\ fresh' = FALSE
    /\ staleCalled' = (staleCalled \/ ~includes(selectedPairs, pairToRemove))
    /\ held' = pairToRemove
    /\ UNCHANGED <<allNames, isUploading, pendingFile, issued>>

\* ---------------------------------------------------------------- resetApp
\* Variant of resetApp without setSelectedPairs([]).
resetApp_keepsHistory ==
    /\ allNames' = <<>>
    /\ remainingNames' = <<>>
    /\ currentPair' = NoPair
    /\ lastOp' = "reset"
    /\ issued' = 0
    /\ fresh' = TRUE
    /\ held' = NoPair
    /\ staleCalled' = FALSE
    /\ UNCHANGED <<selectedPairs, isUploading, pendingFile, toast>>

resetApp ==
    /\ allNames' = <<>>
    /\ remainingNames' = <<>>
    /\ selectedPairs' = <<>>
    /\ currentPair' = NoPair
    /\ lastOp' = "reset"
    /\ issued' = 0
    /\ fresh' = TRUE
    /\ held' = NoPair
    /\ staleCalled' = FALSE
    /\ UNCHANGED <<isUploading, pendingFile, toast>>

\* ------------------------------------------------ events of the rendered UI
\* onChange of the file input, fired without a file.
ChangeNoFile == FileInputEnabled /\ uploadNoFile

\* onChange of the file input with a chosen file.
ChangeFile == FileInputEnabled /\ \E text \in Files : uploadStart(text)

\* The outstanding read settles and the handler runs to its end: the promise
\* rejects, or it resolves and parseCSV decides between the two branches.
ReadSettles == isUploading /\ (uploadReadFailed \/ uploadTooFew \/ uploadLoaded)

\* Click on "Select Randomly".
ClickSelect == SelectButtonEnabled /\ selectRandomPair

\* Click on the trash icon of a rendered history row.
ClickRemove ==
    \E i \in 1..Len(selectedPairs) : removePairFromHistory(selectedPairs[i])

\* Click on "Reset".
ClickReset == SelectionCardShown /\ resetApp

Next ==
    \/ ChangeNoFile
    \/ ChangeFile
    \/ ReadSettles
    \/ ClickSelect
    \/ ClickRemove
    \/ ClickReset

Spec == Init /\ [][Next]_vars

\* The promise of file.text() settles: an outstanding read does not stay
\* outstanding forever.
SpecLive == Spec /\ WF_vars(ReadSettles)

\* ------------------------------------------- every short text as the file
\* The characters of the texts: two letters, both delimiters, the line
\* break, a blank and the double quote.
Alphabet == {"a", "b", ",", ";", "\n", " ", "\""}

\* Every text of at most MaxLen characters.
Texts == UNION {[1..n -> Alphabet] : n \in 0..MaxLen}

\* The read of an arbitrary short file is outstanding, nothing is loaded.
InitParse ==
    /\ allNames = <<>>
    /\ remainingNames = <<>>
    /\ selectedPairs = <<>>
    /\ currentPair = NoPair
    /\ isUploading = TRUE
    /\ pendingFile \in Texts
    /\ toast = NoToast
    /\ lastOp = "reading"
    /\ issued = 0
    /\ fresh = TRUE
    /\ staleCalled = FALSE
    /\ held = NoPair

\* The read settles: parseCSV is applied to the text.
SpecParse == InitParse /\ [][ReadSettles]_vars

\* ------------------------------------- handlers called past their UI gates
\* selectRandomPair invoked although its button is disabled.
CallSelect == ~SelectButtonEnabled /\ selectRandomPair

\* resetApp invoked although the selection card, and its Reset button, is
\* not rendered.
CallReset == ~SelectionCardShown /\ resetApp

\* The UI events, and draws and resets requested past their gates.
NextCalls == Next \/ CallSelect \/ CallReset

SpecCalls == Init /\ [][NextCalls]_vars

\* removePairFromHistory invoked again with the pair object of the row
\* clicked last, after that pair left the history.  The call is made from
\* states the UI events produce, so not after an earlier such call.
CallRemove ==
    /\ ~staleCalled
    /\ held # NoPair
    /\ ~includes(selectedPairs, held)
    /\ removePairFromHistory(held)

\* The UI events, and removals requested with a stale pair object.
NextStale == Next \/ CallRemove

SpecStale == Init /\ [][NextStale]_vars

\* ================================================================ claims
\* The pairing state is empty: nothing loaded, nothing drawn.
Empty == entities = <<<<>>, <<>>, <<>>, NoPair>>

\* The rounds of a history, in history order.
Rounds(h) == [i \in 1..Len(h) |-> h[i].round]

\* C1: in every reachable state the names of the pool together with the
\* names held by the pairs of the history are exactly the loaded names; no
\* loaded name is lost.
C1_NoNameLost ==
    Elems(remainingNames) \union PairNames(selectedPairs) = Elems(allNames)

\* C2: in every reachable state the pool is a subset of the loaded names and
\* shares no name with any pair of the history.
C2_PoolDisjointFromHistory ==
    /\ Elems(remainingNames) \subseteq Elems(allNames)
    /\ Elems(remainingNames) \cap PairNames(selectedPairs) = {}

\* A pair was undone while another pair stays in the history and names are
\* available.
C2_Witness ==
    /\ lastOp = "removed"
    /\ selectedPairs # <<>>
    /\ Len(remainingNames) >= 2

\* C3: every successful draw assigns a round strictly greater than every
\* round issued since the last Load, removed pairs' rounds included.
C3_RoundsNeverReused ==
    [][lastOp' = "drawn" => selectedPairs'[Len(selectedPairs')].round > issued]_vars

\* C4: in every reachable state the rounds of the history are strictly
\* increasing in history order.
C4_RoundsStrictlyIncreasing ==
    \A i, j \in 1..Len(selectedPairs) :
        i < j => selectedPairs[i].round < selectedPairs[j].round

\* C5: removing a pair of the history puts both its names in the pool,
\* leaves no pair with its round in the history, and leaves the draw button
\* enabled with each of the two names a possible first pick.
C5_UndoRestoresAvailability ==
    [][\A i \in 1..Len(selectedPairs) :
          LET p == selectedPairs[i] IN
          removePairFromHistory(p) =>
              /\ includes(remainingNames', p.name1)
              /\ includes(remainingNames', p.name2)
              /\ \A k \in 1..Len(selectedPairs') : selectedPairs'[k].round # p.round
              /\ SelectButtonEnabled'
              /\ \E pick \in shuffled(remainingNames') : pick[1] = p.name1
              /\ \E pick \in shuffled(remainingNames') : pick[1] = p.name2]_vars

\* A pair was undone from an exhausted pool: its two names, named by the
\* toast, are the whole pool again.
C5_Witness ==
    /\ lastOp = "removed"
    /\ ~staleCalled
    /\ Len(remainingNames) = 2
    /\ Elems(remainingNames) = {toast.args[1], toast.args[2]}

\* C6: a draw attempted with fewer than two names in the pool ends with the
\* destructive "No more pairs" notification and changes none of NameSet,
\* RemainingPool, History and CurrentPair; no draw succeeds from such a pool.
C6_DrawFailsCleanly ==
    [][/\ lastOp' = "drawFailed" =>
              /\ Len(remainingNames) < 2
              /\ UNCHANGED entities
              /\ toast'.title = "No more pairs"
              /\ toast'.variant = "destructive"
       /\ lastOp' = "drawn" => Len(remainingNames) >= 2]_vars

\* A draw was attempted on an exhausted pool while a pair is displayed.
C6_Witness ==
    /\ lastOp = "drawFailed"
    /\ Len(remainingNames) < 2
    /\ currentPair # NoPair
    /\ toast.title = "No more pairs"

\* C7: while only draws followed a Load of N names, k draws leave N - 2k
\* names, the history holds the rounds 1..k in order, the draw stays enabled
\* until k = N div 2 and is disabled from then on with N mod 2 names left.
C7_DrawExhaustive ==
    (fresh /\ Len(allNames) >= 2) =>
        LET N == Len(allNames)
            k == Len(selectedPairs)
        IN  /\ k <= N \div 2
            /\ Len(remainingNames) = N - 2 * k
            /\ Rounds(selectedPairs) = [i \in 1..k |-> i]
            /\ k < N \div 2 => SelectButtonEnabled
            /\ k = N \div 2 => ~SelectButtonEnabled /\ Len(remainingNames) = N % 2

\* A fresh load of at least four names was drawn to exhaustion.
C7_Witness ==
    /\ fresh
    /\ lastOp = "drawn"
    /\ Len(allNames) >= 4
    /\ Len(selectedPairs) = Len(allNames) \div 2

\* C8: in every reachable state no name is held by two pairs of the history
\* and no pair holds the same name twice.
C8_NoRepeat ==
    /\ \A i \in 1..Len(selectedPairs) :
           selectedPairs[i].name1 # selectedPairs[i].name2
    /\ \A i, j \in 1..Len(selectedPairs) :
           i # j => {selectedPairs[i].name1, selectedPairs[i].name2}
                        \cap {selectedPairs[j].name1, selectedPairs[j].name2} = {}

\* Two pairs are in the history after an undo and a new draw.
C8_Witness ==
    /\ lastOp = "drawn"
    /\ ~fresh
    /\ Len(selectedPairs) >= 2

C11_FailedUploadKeepsState ==
    [][/\ lastOp' = "reading" => UNCHANGED entities
       /\ lastOp' \in {"tooFew", "readFailed"} =>
              /\ UNCHANGED entities
              /\ toast'.title = "Error"
              /\ toast'.variant = "destructive"
       /\ lastOp' = "tooFew" => Len(parseCSV(pendingFile)) < 2
       /\ lastOp' = "loaded" => Len(parseCSV(pendingFile)) >= 2]_vars

\* An upload of a file with too few names was rejected and nothing is loaded.
C11_Witness ==
    /\ lastOp = "tooFew"
    /\ toast.title = "Error"
    /\ ~isUploading
    /\ Empty

\* C12: every Reset, from whatever state, ends with NameSet, RemainingPool
\* and History empty and no CurrentPair; a Reset that directly follows a
\* Reset leaves the state of the first.
C12_ResetClearsAll ==
    [][lastOp' = "reset" =>
          /\ Empty'
          /\ lastOp = "reset" => UNCHANGED vars]_vars

\* A session with a draw and an undo was reset.
C12_Witness ==
    /\ lastOp = "reset"
    /\ Empty
    /\ toast.title = "Pair removed"

\* The positions that end a token of a text: every comma, semicolon and line
\* break, with the position before the text and the one after it.
TokenCuts(text) ==
    {0, Len(text) + 1} \union
        {i \in 1..Len(text) : text[i] \in Delimiters \union {"\n"}}

\* The raw token that starts after the cut c.
TokenAt(text, c) ==
    LET next == CHOOSE d \in TokenCuts(text) :
                    d > c /\ \A e \in TokenCuts(text) : e > c => d <= e
    IN  SubSeq(text, c + 1, next - 1)

\* A raw token without its surrounding blanks and then without its quotes.
Cleaned(t) ==
    LET solid == {i \in 1..Len(t) : t[i] \notin Whitespace}
        kept  == {i \in 1..Len(t) :
                     /\ \E l \in solid : l <= i
                     /\ \E h \in solid : i <= h
                     /\ t[i] # "\""}
    IN  [k \in 1..Cardinality(kept) |->
            t[CHOOSE i \in kept : Cardinality({j \in kept : j <= i}) = k]]

\* The cuts whose token is a name: not empty once cleaned.
NameCuts(text) ==
    {c \in TokenCuts(text) \ {Len(text) + 1} : Cleaned(TokenAt(text, c)) # <<>>}

\* C13: for every text, parseCSV returns exactly the cleaned non-empty tokens
\* of the text (split on line breaks, commas and semicolons, trimmed, quotes
\* stripped), each once, ordered by first occurrence; the result is pairwise
\* distinct and a text of delimiters, blanks and line breaks alone gives
\* nothing.
C13_IngestFirstSeenDistinct ==
    isUploading =>
        LET text  == pendingFile
            out   == parseCSV(text)
            First(v) == CHOOSE c \in NameCuts(text) :
                            /\ Cleaned(TokenAt(text, c)) = v
                            /\ \A d \in NameCuts(text) :
                                   Cleaned(TokenAt(text, d)) = v => c <= d
        IN  /\ \A i, j \in 1..Len(out) : i # j => out[i] # out[j]
            /\ Elems(out) = {Cleaned(TokenAt(text, c)) : c \in NameCuts(text)}
            /\ \A i, j \in 1..Len(out) : i < j => First(out[i]) < First(out[j])
            /\ (\A i \in 1..Len(text) :
                   text[i] \in Delimiters \union Whitespace \union {"\n"})
                   => out = <<>>

\* A text with both delimiters whose first name comes back after the second
\* is being read: three tokens, two names.
C13_Witness ==
    /\ isUploading
    /\ Cardinality(NameCuts(pendingFile)) = 3
    /\ Len(parseCSV(pendingFile)) = 2
    /\ \E i, j \in 1..Len(pendingFile) :
           pendingFile[i] = "," /\ pendingFile[j] = ";"
    /\ Cleaned(TokenAt(pendingFile, 0)) = parseCSV(pendingFile)[1]
    /\ \E c \in NameCuts(pendingFile) :
           c > 0 /\ Cleaned(TokenAt(pendingFile, c)) = parseCSV(pendingFile)[1]

\* C14, the part without probabilities: whenever the draw button is enabled,
\* every two different names of the pool can be the pair the next draw
\* displays.  (That the pairs are equally likely is a statement about
\* probabilities, which a behaviour of the model does not carry.)
C14_EveryPairPossible ==
    SelectButtonEnabled =>
        \A i, j \in 1..Len(remainingNames) :
            i < j => ENABLED (/\ ClickSelect
                              /\ {currentPair'.name1, currentPair'.name2}
                                     = {remainingNames[i], remainingNames[j]})

\* C15: removing a pair of the history removes exactly that pair (the
\* history gets one shorter, the other pairs keep their order), adds that
\* pair's two names to the pool and no other name, and leaves NameSet as it
\* was.
C15_RemoveExactlyOnePair ==
    [][\A i \in 1..Len(selectedPairs) :
          LET p == selectedPairs[i] IN
          removePairFromHistory(p) =>
              /\ Len(selectedPairs') = Len(selectedPairs) - 1
              /\ selectedPairs' = SubSeq(selectedPairs, 1, i - 1)
                                      \o SubSeq(selectedPairs, i + 1, Len(selectedPairs))
              /\ Elems(remainingNames') = Elems(remainingNames) \union {p.name1, p.name2}
              /\ allNames' = allNames]_vars

\* C16: a successful draw starts from a pool of at least two names, picks two
\* different names of the pool, leaves the pool without exactly those two
\* (the others in their order), appends one pair holding them to the end of
\* the history, displays that pair, and leaves NameSet and the earlier
\* history entries as they were.
C16_DrawMovesTwoNames ==
    [][lastOp' = "drawn" =>
          LET p == currentPair' IN
          /\ Len(remainingNames) >= 2
          /\ p.name1 # p.name2
          /\ {p.name1, p.name2} \subseteq Elems(remainingNames)
          /\ Elems(remainingNames') = Elems(remainingNames) \ {p.name1, p.name2}
          /\ Len(remainingNames') = Len(remainingNames) - 2
          /\ \A i, j \in 1..Len(remainingNames') :
                 i < j => \E k, l \in 1..Len(remainingNames) :
                              /\ k < l
                              /\ remainingNames[k] = remainingNames'[i]
                              /\ remainingNames[l] = remainingNames'[j]
          /\ Len(selectedPairs') = Len(selectedPairs) + 1
          /\ selectedPairs'[Len(selectedPairs')] = p
          /\ SubSeq(selectedPairs', 1, Len(selectedPairs)) = selectedPairs
          /\ allNames' = allNames]_vars

\* A draw added a second pair to the history and left names in the pool.
C16_Witness ==
    /\ lastOp = "drawn"
    /\ Len(selectedPairs) >= 2
    /\ currentPair = selectedPairs[Len(selectedPairs)]
    /\ Len(remainingNames) >= 1

\* C17: after every step CurrentPair is empty or is the last pair of the
\* history; a draw displays the pair it appended, any other step keeps the
\* displayed pair or clears it, and Load and Reset leave it empty.  So the
\* displayed pair is the most recently drawn one and never a removed one.
C17_CurrentPairIsLastDrawn ==
    [][/\ currentPair' = NoPair
          \/ /\ selectedPairs' # <<>>
             /\ currentPair' = selectedPairs'[Len(selectedPairs')]
       /\ lastOp' = "drawn" => currentPair' # NoPair
       /\ lastOp' # "drawn" => currentPair' \in {NoPair, currentPair}
       /\ lastOp' \in {"loaded", "reset"} => currentPair' = NoPair]_vars

\* An older pair was removed and the displayed pair, still the last of the
\* history, stays displayed.
C17_Witness ==
    /\ lastOp = "removed"
    /\ currentPair # NoPair
    /\ selectedPairs # <<>>
    /\ currentPair = selectedPairs[Len(selectedPairs)]

\* The pool is empty and the history is not.
Exhausted == remainingNames = <<>> /\ selectedPairs # <<>>

\* C18: in an exhausted state the draw button is disabled and an undo is
\* available, and the removal of any pair of the history from such a state
\* leaves at least two names in the pool and the draw button enabled.
C18_ExhaustedIsReversible ==
    [][Exhausted =>
          /\ ~SelectButtonEnabled
          /\ ENABLED ClickRemove
          /\ lastOp' = "removed" =>
                 /\ Len(remainingNames') >= 2
                 /\ SelectButtonEnabled']_vars

\* A pair was removed from an exhausted history of several pairs: its two
\* names are the pool and the draw button is enabled.
C18_Witness ==
    /\ lastOp = "removed"
    /\ Len(remainingNames) = 2
    /\ selectedPairs # <<>>
    /\ Elems(remainingNames) = {held.name1, held.name2}
    /\ SelectButtonEnabled

\* C19: while a read is outstanding no file can be chosen and no draw,
\* removal or reset can be requested; the only step the state can take is the
\* settling of the read, and until then NameSet, RemainingPool, History and
\* CurrentPair stay as they were (empty).
C19_NoInterleavingWhileReading ==
    [][isUploading =>
          /\ ~ENABLED ChangeFile
          /\ ~ENABLED ChangeNoFile
          /\ ~ENABLED ClickSelect
          /\ ~ENABLED ClickRemove
          /\ ~ENABLED ClickReset
          /\ Empty
          /\ lastOp' \in {"loaded", "tooFew", "readFailed"}
          /\ ~isUploading']_vars

\* A read is outstanding in a session that follows one with an undo.
C19_Witness ==
    /\ isUploading
    /\ lastOp = "reading"
    /\ pendingFile # NoFile
    /\ toast.title = "Pair removed"

\* C20: the uploading flag is set exactly while a read is outstanding, and
\* every upload that starts is followed by a state with the flag cleared,
\* whichever way the read ends.
C20_UploadingFlagClears ==
    /\ [](isUploading <=> pendingFile # NoFile)
    /\ isUploading ~> ~isUploading

\* A read was rejected and the flag is cleared again.
C20_Witness ==
    /\ lastOp = "readFailed"
    /\ ~isUploading
    /\ pendingFile = NoFile
    /\ FileInputEnabled

====
